---- MODULE Spec2Model ----
(***************************************************************************)
(* A model of tigs.py (TI Game Setup): the hex geometry, the tile records, *)
(* the per-home statistics, the imbalance of a board and the randomized    *)
(* shuffle optimizer (Board.optimize / Board.improve).                     *)
(*                                                                         *)
(* Python lists are sequences; a Python index k is the sequence index k+1. *)
(* All weights of class WEIGHTS are multiples of 1/8, so scores are kept   *)
(* as integers: a statistics score and difference in quarters (x4), a home *)
(* difference and the imbalance in 32nds (x32).  The products and sums of  *)
(* the program are exact in binary floating point for these values, so the *)
(* integer comparison is the program's comparison.                         *)
(***************************************************************************)
EXTENDS Integers, Sequences, FiniteSets, TLC

VARIABLES
    NONHOME_TILES,  \* global NONHOME_TILES: identities of the data file, in file order
    FLAGS,          \* the parsed command line
    pc,             \* where main_board / Board.optimize / Board.improve stands
    err,            \* the exception that ended the program, or None
    tiles,          \* Board.tiles
    unused,         \* Board.unused
    homes,          \* Board.homes, each with its hop lists and its four HomeStats
    num_tiles,      \* Board.num_tiles
    num_homes,      \* Board.num_homes
    i,              \* optimize: the round counter
    imbalance,      \* optimize: the local read at the head of the round
    entry_imbalance,\* get_imbalance() at the call of optimize (history)
    shuffle_keegan, \* improve: the positions chosen so far
    keegan,         \* improve: the last position drawn
    ret,            \* the value optimize returned, NotReturned before it returns
    acc, rhs, third \* three HomeStats aggregates (the statistics specification)

boardVars == <<tiles, unused, homes, num_tiles, num_homes>>
optVars == <<i, imbalance, entry_imbalance, shuffle_keegan, keegan, ret>>
statVars == <<acc, rhs, third>>
vars == <<NONHOME_TILES, FLAGS, pc, err, boardVars, optVars, statVars>>

-----------------------------------------------------------------------------
(* Bounds of the model *)

\* rounds on the command line are 0..MaxRounds
MaxRounds == 2
\* --shuffle on the command line is 1..MaxShuffle
MaxShuffle == 2
\* random.sample is explored for the draws 0..MaxSeed
MaxSeed == 1
\* non-home, non-Mecatol rows of the small data file
SmallCatalog == 8
\* non-home, non-Mecatol rows of the medium data file
MediumCatalog == 22
\* non-home, non-Mecatol rows of the large data file
LargeCatalog == 53
\* tiles accumulated into one aggregate of the statistics specification
MaxStatTiles == 2

-----------------------------------------------------------------------------
(* Python helpers *)

None == "None"

\* stands for "optimize has not returned": no imbalance is negative
NotReturned == -1

Abs(x) == IF x < 0 THEN -x ELSE x

Max2(a, b) == IF a >= b THEN a ELSE b

Range(s) == {s[j] : j \in 1..Len(s)}

\* list[k] for a Python index k
At(list, k) == list[k + 1]

\* list.insert(k, x): beyond the end it appends
Insert(list, k, x) ==
    IF k >= Len(list) THEN Append(list, x)
    ELSE SubSeq(list, 1, k) \o <<x>> \o SubSeq(list, k + 1, Len(list))

\* a table built by a comprehension, with every entry computed
Stored(f) == f @@ <<>>

\* a list built by a comprehension, with every entry computed
StoredSeq(s) == SubSeq(s, 1, Len(s))

\* the concatenation of the lists ss[lo..hi]
RECURSIVE FlattenRange(_, _, _)
FlattenRange(ss, lo, hi) ==
    IF lo > hi THEN <<>>
    ELSE IF lo = hi THEN ss[lo]
    ELSE FlattenRange(ss, lo, (lo + hi) \div 2) \o FlattenRange(ss, ((lo + hi) \div 2) + 1, hi)

FlattenSeq(ss) == FlattenRange(ss, 1, Len(ss))

\* [x for x in list[lo..hi] if x in keep]
RECURSIVE FilterRange(_, _, _, _)
FilterRange(list, keep, lo, hi) ==
    IF lo > hi THEN <<>>
    ELSE IF lo = hi THEN (IF list[lo] \in keep THEN <<list[lo]>> ELSE <<>>)
    ELSE FilterRange(list, keep, lo, (lo + hi) \div 2)
         \o FilterRange(list, keep, ((lo + hi) \div 2) + 1, hi)

\* [x for x in list if x in keep]
Filter(list, keep) == FilterRange(list, keep, 1, Len(list))

-----------------------------------------------------------------------------
(* Hex geometry *)

MAX_RINGS == 4

MECATOL_INDEX == 18

NEIGHBORS == << <<1,0,-1>>, <<0,1,-1>>, <<-1,1,0>>, <<-1,0,1>>, <<0,-1,1>>, <<1,-1,0>> >>

cube_add(x, y) == <<x[1] + y[1], x[2] + y[2], x[3] + y[3]>>

cube_distance(x, y) == Max2(Abs(x[1] - y[1]), Max2(Abs(x[2] - y[2]), Abs(x[3] - y[3])))

\* the walk of cube_ring: step t is step t % n of side t \div n
RECURSIVE cube_ring_walk(_, _, _)
cube_ring_walk(n, t, coord) ==
    IF t = Len(NEIGHBORS) * n THEN <<>>
    ELSE <<coord>> \o cube_ring_walk(n, t + 1, cube_add(coord, NEIGHBORS[(t \div n) + 1]))

\* the ring walked back onto its first coordinate
cube_ring_closed(n) ==
    IF n <= 0 THEN << <<0,0,0>> >>
    ELSE cube_ring_walk(n, 0, <<0, -n, n>>) \o << <<0, -n, n>> >>

cube_ring(n) ==
    IF n <= 0 THEN << <<0,0,0>> >>
    ELSE cube_ring_walk(n, 0, <<0, -n, n>>)

KEEGAN_TO_COORD == FlattenSeq(StoredSeq([ring \in 1..(MAX_RINGS + 1) |-> cube_ring(ring - 1)]))

\* the dict comprehension: a later k overwrites an earlier one with the same coordinate
COORD_TO_KEEGAN ==
    Stored([c \in Range(KEEGAN_TO_COORD) |->
        CHOOSE k \in 0..(Len(KEEGAN_TO_COORD) - 1) :
            /\ At(KEEGAN_TO_COORD, k) = c
            /\ \A k2 \in 0..(Len(KEEGAN_TO_COORD) - 1) : At(KEEGAN_TO_COORD, k2) = c => k2 <= k])

RECURSIVE adjacent_of(_, _)
adjacent_of(coord, offsets) ==
    IF offsets = <<>> THEN <<>>
    ELSE LET n_coord == cube_add(coord, Head(offsets))
         IN  (IF n_coord \in DOMAIN COORD_TO_KEEGAN THEN <<COORD_TO_KEEGAN[n_coord]>> ELSE <<>>)
             \o adjacent_of(coord, Tail(offsets))

KEEGAN_ADJACENT ==
    Stored([k \in 1..Len(KEEGAN_TO_COORD) |-> adjacent_of(KEEGAN_TO_COORD[k], NEIGHBORS)])

-----------------------------------------------------------------------------
(* The data file: one row per planet (load_tiles).  The rows considered    *)
(* here follow the shape of planets.csv: home systems 1..17, Mecatol Rex,  *)
(* then non-home systems whose kind repeats with period 8.                 *)

Row(r, inf, type, skip, anomaly, worm) ==
    [resource |-> r, influence |-> inf, type |-> type, skip |-> skip, anomaly |-> anomaly, worm |-> worm]

Rows(index) ==
    IF index < MECATOL_INDEX THEN <<Row(4, 2, "home", "", "", "")>>
    ELSE IF index = MECATOL_INDEX THEN <<Row(1, 6, "", "", "", "")>>
    ELSE CASE (index - MECATOL_INDEX - 1) % 8 = 0 -> <<Row(2, 1, "", "", "", "")>>
           [] (index - MECATOL_INDEX - 1) % 8 = 1 -> <<Row(1, 3, "", "blue", "", "")>>
           [] (index - MECATOL_INDEX - 1) % 8 = 2 -> <<Row(1, 1, "", "", "", ""), Row(0, 2, "", "", "", "")>>
           [] (index - MECATOL_INDEX - 1) % 8 = 3 -> <<Row(0, 0, "", "", "", "")>>
           [] (index - MECATOL_INDEX - 1) % 8 = 4 -> <<Row(0, 0, "", "", "nebula", "")>>
           [] (index - MECATOL_INDEX - 1) % 8 = 5 -> <<Row(3, 1, "", "", "", "alpha")>>
           [] (index - MECATOL_INDEX - 1) % 8 = 6 -> <<Row(0, 0, "", "", "", "beta")>>
           [] OTHER -> <<Row(2, 2, "", "legend", "", "")>>

\* load_tiles on the rows of one tile: the record TILES[index]
RECURSIVE load_rows(_, _)
load_rows(tile, rows) ==
    IF rows = <<>> THEN tile
    ELSE LET row == Head(rows)
             is_home_row == row.type = "home"
             planet == [resource |-> row.resource, influence |-> row.influence]
             t1 == [tile EXCEPT !.planets = Append(@, planet),
                                !.resource = @ + row.resource,
                                !.influence = @ + row.influence]
             t2 == IF is_home_row THEN t1
                   ELSE [t1 EXCEPT !.skip = IF row.skip # "" THEN row.skip ELSE @,
                                   !.anomaly = IF row.anomaly # "" THEN row.anomaly ELSE @,
                                   !.worm = IF row.worm # "" THEN row.worm ELSE @]
         IN  load_rows(t2, Tail(rows))

load_tile(index) ==
    load_rows([resource |-> 0, influence |-> 0, skip |-> None, anomaly |-> None, worm |-> None,
               planets |-> <<>>,
               home |-> IF Head(Rows(index)).type = "home" THEN "" ELSE None],
              Rows(index))

TILES == Stored([index \in 1..(MECATOL_INDEX + LargeCatalog + 1) |-> load_tile(index)])

\* the non-home identities of a data file with n non-home rows after Mecatol
Catalog(n) == StoredSeq([j \in 1..(n + 1) |-> MECATOL_INDEX + j - 1])

is_home(tile_index) ==
    IF tile_index = 0 THEN TRUE ELSE TILES[tile_index].home # None

-----------------------------------------------------------------------------
(* class WEIGHTS, scores in quarters *)

DIFF_SCORE == 1             \* 1.0, applied to a score in quarters
DIFF_RES == 2               \* 0.5 x4
DIFF_INF == 2               \* 0.5 x4
DIFF_WORM == 20             \* 5.0 x4
DIFF_ANOM == 20             \* 5.0 x4
DIFF_SKIP == 20             \* 5.0 x4
DIFF_HOP1 == 8              \* 1.0 x8
DIFF_HOP2C == 1             \* 0.125 x8
DIFF_HOP2U == 2             \* 0.25 x8
SCORE_EFF_RESOURCE == 3     \* 0.75 x4
SCORE_RESOURCE == 1         \* 0.25 x4
SCORE_EFF_INFLUENCE == 3    \* 0.75 x4
SCORE_INFLUENCE == 1        \* 0.25 x4
SCORE_SKIPS == 2            \* 0.5 x4
SCORE_ADJ_WORM == -8        \* -2 x4
SCORE_HOP2_WORM == 1        \* 0.25 x4
SCORE_MIN_HOP1_PLANET_SYS == 3
SCORE_MAX_HOP1_PLANET_SYS == 4
SCORE_PENALTY == -400       \* -100 x4

-----------------------------------------------------------------------------
(* class HomeStats *)

reset(self) ==
    [self EXCEPT !.resource = 0, !.influence = 0, !.eff_resource = 0, !.eff_influence = 0,
                 !.eff_both = 0, !.skips = <<>>, !.worms = 0, !.anomalies = 0,
                 !.planet_systems = 0]

HomeStats(hop) ==
    [hop |-> hop, resource |-> 0, influence |-> 0, eff_resource |-> 0, eff_influence |-> 0,
     eff_both |-> 0, skips |-> <<>>, worms |-> 0, anomalies |-> 0, planet_systems |-> 0]

\* __iadd__ with `self.worms = other.worms` in place of `+=`
iadd_overwriting_worms(self, other) ==
    [self EXCEPT !.resource = @ + other.resource,
                 !.influence = @ + other.influence,
                 !.eff_resource = @ + other.eff_resource,
                 !.eff_influence = @ + other.eff_influence,
                 !.eff_both = @ + other.eff_both,
                 !.skips = @ \o other.skips,
                 !.worms = other.worms,
                 !.anomalies = @ + other.anomalies,
                 !.planet_systems = @ + other.planet_systems]

iadd(self, other) ==
    [self EXCEPT !.resource = @ + other.resource,
                 !.influence = @ + other.influence,
                 !.eff_resource = @ + other.eff_resource,
                 !.eff_influence = @ + other.eff_influence,
                 !.eff_both = @ + other.eff_both,
                 !.skips = @ \o other.skips,
                 !.worms = @ + other.worms,
                 !.anomalies = @ + other.anomalies,
                 !.planet_systems = @ + other.planet_systems]

RECURSIVE add_planets(_, _)
add_planets(self, planets) ==
    IF planets = <<>> THEN self
    ELSE LET resource == Head(planets).resource
             influence == Head(planets).influence
             s1 == [self EXCEPT !.resource = @ + resource, !.influence = @ + influence]
             s2 == IF resource > influence THEN [s1 EXCEPT !.eff_resource = @ + resource]
                   ELSE IF resource < influence THEN [s1 EXCEPT !.eff_influence = @ + influence]
                   ELSE [s1 EXCEPT !.eff_both = @ + resource]
         IN  add_planets(s2, Tail(planets))

add_tile(self, tile) ==
    LET s == add_planets(self, tile.planets)
    IN  [s EXCEPT !.planet_systems = @ + (IF tile.resource + tile.influence > 0 THEN 1 ELSE 0),
                  !.worms = @ + (IF tile.worm # None THEN 1 ELSE 0),
                  !.anomalies = @ + (IF tile.anomaly # None THEN 1 ELSE 0),
                  !.skips = IF tile.skip \notin {None, ""} THEN Append(@, tile.skip) ELSE @]

RECURSIVE update_from(_, _, _)
update_from(self, tile_indices, board) ==
    IF tile_indices = <<>> THEN self
    ELSE LET tile_index == At(board, Head(tile_indices))
         IN  update_from(IF ~is_home(tile_index) THEN add_tile(self, TILES[tile_index]) ELSE self,
                         Tail(tile_indices), board)

update(self, tile_indices, board) == update_from(reset(self), tile_indices, board)

\* HomeStats.score, in quarters
score(self) ==
    LET base == SCORE_EFF_RESOURCE * (self.eff_resource + self.eff_both)
                + SCORE_RESOURCE * self.resource
                + SCORE_EFF_INFLUENCE * self.eff_influence
                + SCORE_INFLUENCE * self.resource
                + SCORE_SKIPS * Len(self.skips)
                + (IF self.hop = 1 THEN SCORE_ADJ_WORM ELSE SCORE_HOP2_WORM) * self.worms
    IN  IF self.hop = 1
        THEN base + (IF self.planet_systems > SCORE_MAX_HOP1_PLANET_SYS THEN SCORE_PENALTY ELSE 0)
                  + (IF self.planet_systems < SCORE_MIN_HOP1_PLANET_SYS THEN SCORE_PENALTY ELSE 0)
        ELSE base

\* HomeStats.difference with the score term taken without abs()
difference_signed_score(self, other) ==
    DIFF_SCORE * (score(self) - score(other))
    + DIFF_RES * Abs(self.resource - other.resource)
    + DIFF_INF * Abs(self.influence - other.influence)
    + DIFF_WORM * Abs(self.worms - other.worms)
    + DIFF_ANOM * Abs(self.anomalies - other.anomalies)
    + DIFF_SKIP * Abs(Len(self.skips) - Len(other.skips))

\* HomeStats.difference, in quarters
difference(self, other) ==
    DIFF_SCORE * Abs(score(self) - score(other))
    + DIFF_RES * Abs(self.resource - other.resource)
    + DIFF_INF * Abs(self.influence - other.influence)
    + DIFF_WORM * Abs(self.worms - other.worms)
    + DIFF_ANOM * Abs(self.anomalies - other.anomalies)
    + DIFF_SKIP * Abs(Len(self.skips) - Len(other.skips))

-----------------------------------------------------------------------------
(* class Home *)

\* [i for i in range(num) if dist_to[i] == h]
hop_list(home_keegan, num, h) ==
    Filter(StoredSeq([j \in 1..num |-> j - 1]),
           {c \in 0..(num - 1) :
               cube_distance(At(KEEGAN_TO_COORD, home_keegan), At(KEEGAN_TO_COORD, c)) = h})

Home(index, home_keegan, num) ==
    [index |-> index, keegan |-> home_keegan,
     hop1 |-> hop_list(home_keegan, num, 1),
     hop2 |-> hop_list(home_keegan, num, 2),
     hop2u |-> <<>>, hop2c |-> <<>>,
     stats1 |-> HomeStats(1), stats2u |-> HomeStats(2), stats2c |-> HomeStats(2),
     stats2t |-> HomeStats(2)]

initialize_hop2_tile_lists(self, all_homes) ==
    LET others == {j \in 1..Len(all_homes) : all_homes[j].index # self.index}
        other_hop1 == UNION {Range(all_homes[j].hop1) : j \in others}
        other_hop2 == UNION {Range(all_homes[j].hop2) : j \in others}
    IN  [self EXCEPT !.hop2u = Filter(self.hop2, Range(self.hop2) \ (other_hop2 \cup other_hop1)),
                     !.hop2c = Filter(self.hop2, (Range(self.hop2) \cap other_hop2) \ other_hop1),
                     !.stats1 = HomeStats(1), !.stats2u = HomeStats(2),
                     !.stats2c = HomeStats(2), !.stats2t = HomeStats(2)]

home_update_stats(self, board) ==
    LET s2u == update(self.stats2u, self.hop2u, board)
        s2c == update(self.stats2c, self.hop2c, board)
    IN  [self EXCEPT !.stats1 = update(self.stats1, self.hop1, board),
                     !.stats2u = s2u,
                     !.stats2c = s2c,
                     !.stats2t = iadd(iadd(reset(self.stats2t), s2u), s2c)]

\* Home.difference, in 32nds
home_difference(self, other_home) ==
    DIFF_HOP1 * difference(self.stats1, other_home.stats1)
    + DIFF_HOP2C * difference(self.stats2c, other_home.stats2c)
    + DIFF_HOP2U * difference(self.stats2u, other_home.stats2c)

-----------------------------------------------------------------------------
(* class Board *)

home_keegan_of(n) ==
    CASE n = 4 -> <<23, 27, 32, 36>>
      [] n = 6 -> <<19, 22, 25, 28, 31, 34>>
      [] n = 8 -> <<37, 40, 43, 46, 49, 52, 55, 58>>
      [] OTHER -> <<>>

\* the player-count test written as a range test
supported_players_in_range(n) == n \in 4..8

supported_players(n) == n \in {4, 6, 8}

\* num_tiles with `n < 6` in place of `n <= 6`
board_size_strict(n) == IF n < 6 THEN 37 ELSE 61

board_size(n) == IF n <= 6 THEN 37 ELSE 61

\* random.sample(population, k) for the draw `seed`: the k entries that follow
\* the seed-th one, cyclically
sample(population, k, seed) ==
    StoredSeq([j \in 1..k |-> population[((seed + j - 1) % Len(population)) + 1]])

RECURSIVE insert_homes(_, _)
insert_homes(tile_list, home_keegan) ==
    IF home_keegan = <<>> THEN tile_list
    ELSE insert_homes(Insert(tile_list, Head(home_keegan), 0), Tail(home_keegan))

\* generate_random_board(n) with FLAGS.require iterated in the order `required`
generate_random_board(n, nonhome, required, seed) ==
    IF ~supported_players(n) THEN [err |-> "Unsupported player count", tiles |-> <<>>]
    ELSE LET all_tiles == Filter(nonhome, Range(nonhome) \ {MECATOL_INDEX})
             tile_list == <<MECATOL_INDEX>> \o required
             rest == Filter(all_tiles, Range(all_tiles) \ Range(required))
             k == board_size(n) - Len(tile_list) - n
         IN  IF ~(Range(required) \subseteq Range(all_tiles)) THEN [err |-> "ValueError", tiles |-> <<>>]
             ELSE IF k < 0 \/ k > Len(rest) THEN [err |-> "ValueError", tiles |-> <<>>]
             ELSE [err |-> None,
                   tiles |-> insert_homes(tile_list \o sample(rest, k, seed), home_keegan_of(n))]

\* the unused list computed without looking at the board
update_unused_ignoring_board(board, nonhome, exclude) ==
    Filter(nonhome, Range(nonhome) \ exclude)

update_unused(board, nonhome, exclude) ==
    Filter(nonhome, Range(nonhome) \ (Range(board) \cup exclude))

update_stats(all_homes, board) ==
    StoredSeq([h \in 1..Len(all_homes) |-> home_update_stats(all_homes[h], board)])

\* get_imbalance, in 32nds: the largest difference of a pair (a, b), a before b
get_imbalance(all_homes) ==
    LET pairs == {<<a, b>> \in (1..Len(all_homes)) \X (1..Len(all_homes)) : a < b}
        ds == {0} \cup {home_difference(all_homes[p[1]], all_homes[p[2]]) : p \in pairs}
    IN  CHOOSE m \in ds : \A d \in ds : d <= m

\* Board.__init__ once self.tiles is set
new_board(board, nonhome, exclude) ==
    LET num == Len(board)
        home_keegan == Filter(StoredSeq([j \in 1..num |-> j - 1]),
                              {k \in 0..(num - 1) : is_home(At(board, k))})
        homes0 == StoredSeq([h \in 1..Len(home_keegan) |-> Home(h - 1, home_keegan[h], num)])
        homes1 == StoredSeq([h \in 1..Len(homes0) |-> initialize_hop2_tile_lists(homes0[h], homes0)])
    IN  [tiles |-> board, num_tiles |-> num, num_homes |-> Len(home_keegan),
         unused |-> update_unused(board, nonhome, exclude),
         homes |-> update_stats(homes1, board)]

\* the legality rules without the rule on wormholes next to a player
is_valid_without_player_wormhole_rule(board, num, k) ==
    LET tile == TILES[At(board, k)]
        adjacent == {a \in Range(KEEGAN_ADJACENT[k + 1]) : a < num}
        truthy(x) == x \notin {None, ""}
    IN  /\ ~(truthy(tile.anomaly)
             /\ \E a \in adjacent : At(board, a) > 0 /\ TILES[At(board, a)].anomaly # None)
        /\ ~(truthy(tile.worm)
             /\ \E a \in adjacent : At(board, a) > 0 /\ tile.worm = TILES[At(board, a)].worm)
        /\ ~(tile.skip = "legend" /\ \E a \in adjacent : At(board, a) = 0)

is_valid(board, num, k) ==
    LET tile == TILES[At(board, k)]
        adjacent == {a \in Range(KEEGAN_ADJACENT[k + 1]) : a < num}
        truthy(x) == x \notin {None, ""}
    IN  /\ ~(truthy(tile.anomaly)
             /\ \E a \in adjacent : At(board, a) > 0 /\ TILES[At(board, a)].anomaly # None)
        /\ ~(truthy(tile.worm)
             /\ \E a \in adjacent : At(board, a) > 0 /\ tile.worm = TILES[At(board, a)].worm)
        /\ ~(tile.skip = "legend" /\ \E a \in adjacent : At(board, a) = 0)
        /\ ~(truthy(tile.worm) /\ \E a \in adjacent : At(board, a) = 0)

\* the index tuples of itertools.permutations(range(n), r), in its order
RECURSIVE index_permutations(_, _, _)
index_permutations(prefix, n, r) ==
    IF Len(prefix) = r THEN <<prefix>>
    ELSE FlattenSeq(StoredSeq([j \in 1..n |-> IF j \in Range(prefix) THEN <<>>
                                              ELSE index_permutations(Append(prefix, j), n, r)]))

permutations(pool, r) ==
    LET idx == index_permutations(<<>>, Len(pool), r)
    IN  StoredSeq([p \in 1..Len(idx) |-> StoredSeq([q \in 1..r |-> pool[idx[p][q]]])])

\* self.tiles[positions[q]] = placed[q] for every q
place(board, positions, placed) ==
    StoredSeq([p \in 1..Len(board) |->
        IF \E q \in 1..Len(positions) : positions[q] = p - 1
        THEN placed[CHOOSE q \in 1..Len(positions) :
                       /\ positions[q] = p - 1
                       /\ \A q2 \in 1..Len(positions) : positions[q2] = p - 1 => q2 <= q]
        ELSE board[p]])

\* the comparison that keeps an arrangement, the wrong way round
is_better_reversed(new_imbalance, best_imbalance) == new_imbalance > best_imbalance

\* the comparison that also keeps an arrangement no better than the best so far
is_better_or_equal(new_imbalance, best_imbalance) == new_imbalance <= best_imbalance

\* the comparison that keeps an arrangement
is_better(new_imbalance, best_imbalance) == new_imbalance < best_imbalance

\* the comparison of a legal arrangement with the best so far
keep_better(st, board1, homes1, new_imbalance, placed) ==
    IF is_better(new_imbalance, st.best_imbalance)
    THEN [tiles |-> board1, homes |-> homes1,
          best_imbalance |-> new_imbalance, best_tiles |-> placed]
    ELSE [st EXCEPT !.tiles = board1, !.homes = homes1]

\* update_stats and get_imbalance on a legal arrangement
evaluate(st, board1, homes1, placed) ==
    keep_better(st, board1, homes1, get_imbalance(homes1), placed)

\* the body of the loop once the permutation is placed on the board
placed_on(st, board1, placed, positions, num) ==
    IF ~(\A q \in 1..Len(positions) : is_valid(board1, num, positions[q]))
    THEN [st EXCEPT !.tiles = board1]
    ELSE evaluate(st, board1, update_stats(st.homes, board1), placed)

\* one pass of the loop over the permutations; st holds self.tiles, self.homes,
\* best_imbalance and best_tiles
try_permutation(st, placed, positions, num) ==
    placed_on(st, place(st.tiles, positions, placed), placed, positions, num)

\* the loop over perms[lo..hi], the first half before the second
RECURSIVE permutation_loop(_, _, _, _, _, _)
permutation_loop(st, perms, lo, hi, positions, num) ==
    IF lo > hi THEN st
    ELSE IF lo = hi THEN try_permutation(st, perms[lo], positions, num)
    ELSE LET first == permutation_loop(st, perms, lo, (lo + hi) \div 2, positions, num)
         IN  IF first.best_imbalance < 0 THEN first
             ELSE permutation_loop(first, perms, ((lo + hi) \div 2) + 1, hi, positions, num)

\* [self.tiles[j] for j in shuffle_keegan]
tiles_at(board, positions) == StoredSeq([q \in 1..Len(positions) |-> At(board, positions[q])])

\* the state of improve before the loop over the permutations
before_loop(board, all_homes, positions) ==
    [tiles |-> board, homes |-> all_homes,
     best_imbalance |-> get_imbalance(all_homes),
     best_tiles |-> tiles_at(board, positions)]

\* for tiles in itertools.permutations(free_tiles, shuffle_size)
loop_over(st, perms, positions, num) == permutation_loop(st, perms, 1, Len(perms), positions, num)

\* the end of improve without its self.update_stats()
refreshed_without_update_stats(board1, all_homes, nonhome, exclude) ==
    [tiles |-> board1,
     homes |-> all_homes,
     unused |-> update_unused(board1, nonhome, exclude)]

\* self.update_stats() and self.update_unused() at the end of improve
refreshed(board1, all_homes, nonhome, exclude) ==
    [tiles |-> board1,
     homes |-> update_stats(all_homes, board1),
     unused |-> update_unused(board1, nonhome, exclude)]

\* the best arrangement written back to the board
write_back(st, positions, nonhome, exclude) ==
    refreshed(place(st.tiles, positions, st.best_tiles), st.homes, nonhome, exclude)

\* improve once shuffle_keegan is chosen: the board it leaves
improve_board(board, all_homes, pool, positions, num, nonhome, exclude) ==
    write_back(loop_over(before_loop(board, all_homes, positions),
                         permutations(tiles_at(board, positions) \o pool, Len(positions)),
                         positions, num),
               positions, nonhome, exclude)

-----------------------------------------------------------------------------
(* The command lines and data files considered *)

\* every order in which a set of at most two identities can be iterated
Orders(S) == {sq \in UNION {[1..n -> S] : n \in 0..2} : Len(sq) = Cardinality(S) /\ Range(sq) = S}

AllIds == 1..(MECATOL_INDEX + LargeCatalog + 1)

\* --board on a 7-cell map, homes (identity 0) at 1 and 4, a wormhole beside a home
Board7 == <<18, 0, 24, 23, 0, 21, 22>>

\* --board on a 7-cell map whose homes are the home systems 1 and 2
Board7Home == <<18, 1, 19, 20, 2, 21, 24>>

\* --board on a 19-cell map, homes at the opposite corners 7 and 13
Board19 == <<19, 20, 27, 24, 28, 25, 22, 0, 21, 30, 33, 26, 29, 0, 31, 32, 34, 38, 23>>

ExplicitRuns ==
    {[board |-> Board7, catalog |-> SmallCatalog],
     [board |-> Board7Home, catalog |-> SmallCatalog],
     [board |-> Board19, catalog |-> MediumCatalog]}

ExplicitLocks == {{}, {21}, AllIds}

ExplicitExcludes == {{}, {20, 25}}

\* --lock that leaves a handful of identities free
LockButFew(free) == AllIds \ free

\* command lines without --board: --players, --require, --exclude, --lock
RandomRun(players, require, exclude, lock) ==
    [players |-> players, require |-> require, exclude |-> exclude, lock |-> lock]

RandomRuns ==
    {RandomRun(4, {40, 42}, {44, 61}, LockButFew({23, 40, 42, 45})),
     RandomRun(6, {42}, {}, LockButFew({24, 26, 42})),
     RandomRun(8, {40}, {44, 61}, LockButFew({23, 40, 42, 45})),
     RandomRun(4, {MECATOL_INDEX}, {}, {})}
    \cup {RandomRun(players, {}, {}, {}) : players \in {3, 5, 7}}

Flags(board, players, rounds, shuffle, require, exclude, lock) ==
    [board |-> board, players |-> players, rounds |-> rounds, shuffle |-> shuffle,
     require |-> require, exclude |-> exclude, lock |-> lock]

InitRest ==
    /\ pc = "start"
    /\ err = None
    /\ tiles = <<>>
    /\ unused = <<>>
    /\ homes = <<>>
    /\ num_tiles = 0
    /\ num_homes = 0
    /\ i = 0
    /\ imbalance = 0
    /\ entry_imbalance = 0
    /\ shuffle_keegan = <<>>
    /\ keegan = 0
    /\ ret = NotReturned

InitExplicit ==
    \E run \in ExplicitRuns, lock \in ExplicitLocks, exclude \in ExplicitExcludes,
       shuffle \in 1..MaxShuffle, rounds \in 0..MaxRounds :
        /\ NONHOME_TILES = Catalog(run.catalog)
        /\ FLAGS = Flags(run.board, 4, rounds, shuffle, {}, exclude, lock)

InitRandom ==
    \E run \in RandomRuns, rounds \in 0..MaxRounds :
        /\ NONHOME_TILES = Catalog(LargeCatalog)
        /\ FLAGS = Flags(<<>>, run.players, rounds, 1, run.require, run.exclude, run.lock)

Init ==
    /\ InitExplicit \/ InitRandom
    /\ InitRest
    /\ acc = HomeStats(2) /\ rhs = HomeStats(2) /\ third = HomeStats(2)

-----------------------------------------------------------------------------
(* main_board: Board(...) *)

Built(b) ==
    /\ tiles' = b.tiles
    /\ unused' = b.unused
    /\ homes' = b.homes
    /\ num_tiles' = b.num_tiles
    /\ num_homes' = b.num_homes
    /\ pc' = "constructed"
    /\ UNCHANGED <<NONHOME_TILES, FLAGS, err, optVars, statVars>>

ConstructFromBoard ==
    /\ pc = "start"
    /\ FLAGS.board # <<>>
    /\ Built(new_board(FLAGS.board, NONHOME_TILES, FLAGS.exclude))

ConstructRandom ==
    /\ pc = "start"
    /\ FLAGS.board = <<>>
    /\ \E required \in Orders(FLAGS.require), seed \in 0..MaxSeed :
          LET g == generate_random_board(FLAGS.players, NONHOME_TILES, required, seed)
          IN  /\ g.err = None
              /\ Built(new_board(g.tiles, NONHOME_TILES, FLAGS.exclude))

ConstructFails ==
    /\ pc = "start"
    /\ FLAGS.board = <<>>
    /\ \E required \in Orders(FLAGS.require), seed \in 0..MaxSeed :
          LET g == generate_random_board(FLAGS.players, NONHOME_TILES, required, seed)
          IN  /\ g.err # None
              /\ err' = g.err
              /\ pc' = "error"
              /\ UNCHANGED <<NONHOME_TILES, FLAGS, boardVars, optVars, statVars>>

-----------------------------------------------------------------------------
(* Board.optimize *)

Optimize ==
    /\ pc = "constructed"
    /\ pc' = "round"
    /\ i' = 0
    /\ entry_imbalance' = get_imbalance(homes)
    /\ UNCHANGED <<NONHOME_TILES, FLAGS, err, boardVars, imbalance, shuffle_keegan, keegan, ret, statVars>>

\* a round that finds the board balanced: return 0
ReturnBalanced ==
    /\ pc = "round"
    /\ i < FLAGS.rounds
    /\ get_imbalance(homes) = 0
    /\ imbalance' = get_imbalance(homes)
    /\ ret' = 0
    /\ pc' = "done"
    /\ UNCHANGED <<NONHOME_TILES, FLAGS, err, boardVars, i, entry_imbalance, shuffle_keegan, keegan, statVars>>

\* a round that calls improve
StartImprove ==
    /\ pc = "round"
    /\ i < FLAGS.rounds
    /\ get_imbalance(homes) # 0
    /\ imbalance' = get_imbalance(homes)
    /\ shuffle_keegan' = <<>>
    /\ pc' = "select"
    /\ UNCHANGED <<NONHOME_TILES, FLAGS, err, boardVars, i, entry_imbalance, keegan, ret, statVars>>

\* the rounds are over: return get_imbalance()
OptimizeReturn ==
    /\ pc = "round"
    /\ i >= FLAGS.rounds
    /\ ret' = get_imbalance(homes)
    /\ pc' = "done"
    /\ UNCHANGED <<NONHOME_TILES, FLAGS, err, boardVars, i, imbalance, entry_imbalance, shuffle_keegan, keegan, statVars>>

-----------------------------------------------------------------------------
(* Board.improve *)

\* the selection loop without its third `continue`
rejected_ignoring_lock(board, chosen, lock, k) ==
    \/ k \in Range(chosen)
    \/ is_home(At(board, k))

\* the three `continue`s of the selection loop
rejected(board, chosen, lock, k) ==
    \/ k \in Range(chosen)
    \/ is_home(At(board, k))
    \/ (lock # {} /\ At(board, k) \in lock)

\* keegan = random.randint(1, self.num_tiles - 1), a draw the loop will throw away
DrawRejected ==
    /\ pc = "select"
    /\ Len(shuffle_keegan) < FLAGS.shuffle
    /\ \E k \in 1..(num_tiles - 1) :
          /\ rejected(tiles, shuffle_keegan, FLAGS.lock, k)
          /\ keegan' = k
    /\ pc' = "drawn"
    /\ UNCHANGED <<NONHOME_TILES, FLAGS, err, boardVars, i, imbalance, entry_imbalance, shuffle_keegan, ret, statVars>>

\* keegan = random.randint(1, self.num_tiles - 1), a draw the loop will keep
DrawEligible ==
    /\ pc = "select"
    /\ Len(shuffle_keegan) < FLAGS.shuffle
    /\ \E k \in 1..(num_tiles - 1) :
          /\ ~rejected(tiles, shuffle_keegan, FLAGS.lock, k)
          /\ keegan' = k
    /\ pc' = "drawn"
    /\ UNCHANGED <<NONHOME_TILES, FLAGS, err, boardVars, i, imbalance, entry_imbalance, shuffle_keegan, ret, statVars>>

\* one of the three `continue`s: draw again
Continue ==
    /\ pc = "drawn"
    /\ rejected(tiles, shuffle_keegan, FLAGS.lock, keegan)
    /\ pc' = "select"
    /\ UNCHANGED <<NONHOME_TILES, FLAGS, err, boardVars, optVars, statVars>>

\* break, and shuffle_keegan += [keegan]
Accept ==
    /\ pc = "drawn"
    /\ ~rejected(tiles, shuffle_keegan, FLAGS.lock, keegan)
    /\ shuffle_keegan' = Append(shuffle_keegan, keegan)
    /\ pc' = "select"
    /\ UNCHANGED <<NONHOME_TILES, FLAGS, err, boardVars, i, imbalance, entry_imbalance, keegan, ret, statVars>>

\* the rest of improve: the loop over the permutations and the write-back;
\* then optimize's next round
Improved(b) ==
    /\ tiles' = b.tiles
    /\ homes' = b.homes
    /\ unused' = b.unused
    /\ i' = i + 1
    /\ pc' = "round"
    /\ UNCHANGED <<NONHOME_TILES, FLAGS, err, num_tiles, num_homes, imbalance, entry_imbalance, shuffle_keegan, keegan, ret, statVars>>

Shuffle ==
    /\ pc = "select"
    /\ Len(shuffle_keegan) = FLAGS.shuffle
    /\ Improved(improve_board(tiles, homes, unused, shuffle_keegan, num_tiles,
                              NONHOME_TILES, FLAGS.exclude))

Next ==
    \/ ConstructFromBoard
    \/ ConstructRandom
    \/ ConstructFails
    \/ Optimize
    \/ ReturnBalanced
    \/ StartImprove
    \/ OptimizeReturn
    \/ DrawRejected
    \/ DrawEligible
    \/ Continue
    \/ Accept
    \/ Shuffle

Spec == Init /\ [][Next]_vars

\* the control points of main_board, Board.optimize and Board.improve
Labels == {"start", "constructed", "round", "select", "drawn", "done", "error"}

\* a step of the running program.  Every action of Next changes pc, and some
\* action of Next is enabled exactly when pc is neither "done" nor "error", so
\* fairness of Advance with respect to pc is weak fairness of Next
Advance == pc \notin {"done", "error"} /\ pc' \in Labels

\* the program keeps running, and random.randint returns every value of its
\* range again and again: a position that is eligible at every draw is drawn
FairSpec == Spec /\ WF_pc(Advance) /\ SF_vars(DrawEligible)

-----------------------------------------------------------------------------
(* HomeStats.__iadd__ on aggregates accumulated from tiles *)

\* the tiles accumulated: a "blue" skip, an "alpha" wormhole, a "legend" skip
StatTiles == {20, 24, 26}

TileLists == UNION {[1..m -> StatTiles] : m \in 0..MaxStatTiles}

\* HomeStats(2).update over a board that consists of ids
aggregate(ids) == update(HomeStats(2), StoredSeq([j \in 1..Len(ids) |-> j - 1]), ids)

\* the attributes __iadd__ adds up
fields(s) ==
    <<s.resource, s.influence, s.eff_resource, s.eff_influence, s.eff_both, s.skips,
      s.worms, s.anomalies, s.planet_systems>>

\* the same attributes with skips as a collection: how often each tag occurs
tallies(s) ==
    <<s.resource, s.influence, s.eff_resource, s.eff_influence, s.eff_both,
      [t \in Range(s.skips) |-> Cardinality({j \in 1..Len(s.skips) : s.skips[j] = t})],
      s.worms, s.anomalies, s.planet_systems>>

InitStats ==
    /\ \E a \in TileLists, b \in TileLists, c \in TileLists :
          /\ acc = aggregate(a)
          /\ rhs = aggregate(b)
          /\ third = aggregate(c)
    /\ pc = "stats"
    /\ NONHOME_TILES = Catalog(SmallCatalog)
    /\ FLAGS = Flags(<<>>, 4, 0, 1, {}, {}, {})
    /\ err = None
    /\ tiles = <<>> /\ unused = <<>> /\ homes = <<>> /\ num_tiles = 0 /\ num_homes = 0
    /\ i = 0 /\ imbalance = 0 /\ entry_imbalance = 0
    /\ shuffle_keegan = <<>> /\ keegan = 0 /\ ret = NotReturned

\* acc += rhs
Combine ==
    /\ pc = "stats"
    /\ acc' = iadd(acc, rhs)
    /\ pc' = "combined"
    /\ UNCHANGED <<NONHOME_TILES, FLAGS, err, boardVars, optVars, rhs, third>>

\* acc += third
CombineThird ==
    /\ pc = "combined"
    /\ acc' = iadd(acc, third)
    /\ pc' = "summed"
    /\ UNCHANGED <<NONHOME_TILES, FLAGS, err, boardVars, optVars, rhs, third>>

\* acc.difference(rhs), kept in ret
Compare ==
    /\ pc = "stats"
    /\ ret' = difference(acc, rhs)
    /\ pc' = "compared"
    /\ UNCHANGED <<NONHOME_TILES, FLAGS, err, boardVars, i, imbalance, entry_imbalance,
                   shuffle_keegan, keegan, statVars>>

\* the same statistics held by a HomeStats of hop class h
of_hop(s, h) == [s EXCEPT !.hop = h]

NextStats ==
    \/ Combine
    \/ CombineThird
    \/ Compare

SpecStats == InitStats /\ [][NextStats]_vars

-----------------------------------------------------------------------------
(* Properties *)

\* the states in which Board.optimize has been entered
InOptimize == pc \in {"round", "select", "drawn", "done"}

\* the states in which self.tiles has just been written: after Board.__init__
\* and after each call of improve
BoardWritten == pc \in {"constructed", "round"}

\* the states in which the board is constructed
HasBoard == pc \in {"constructed", "round", "select", "drawn", "done"}

\* C1: optimize never increases the imbalance: from its call on, get_imbalance()
\* is at most its value at the call, the value returned is at most that value,
\* and after every improve step it is at most what it was at the head of the round.
C1_OptimizeNeverIncreasesImbalance ==
    /\ InOptimize => get_imbalance(homes) <= entry_imbalance
    /\ (pc = "round" /\ i > 0) => get_imbalance(homes) <= imbalance
    /\ (pc = "done") => (ret # NotReturned /\ ret <= entry_imbalance)

\* optimize has returned after at least one improve step with a smaller imbalance
C1_Witness == pc = "done" /\ i > 0 /\ ret < entry_imbalance /\ ret = get_imbalance(homes)

\* C2: after every improve step every position chosen for the shuffle passes
\* is_valid on the board that is written back, whatever board the step started from.
C2_ImproveLeavesChosenPositionsLegal ==
    (pc = "round" /\ i > 0) =>
        \A q \in 1..Len(shuffle_keegan) : is_valid(tiles, num_tiles, shuffle_keegan[q])

\* C3: optimize always terminates (returns a value, or the construction failed
\* before it), whatever the lock set and the shuffle size.
C3_OptimizeTerminates == <>(pc \in {"done", "error"})

\* C4: on a randomly generated board every identity of --require is on the board,
\* after generation and after any number of improve steps.
C4_RequiredTilesOnBoard ==
    (HasBoard /\ FLAGS.board = <<>>) => FLAGS.require \subseteq Range(tiles)

\* C5: on a randomly generated board no identity of --exclude is on the board,
\* after generation and after any number of improve steps.
C5_ExcludedTilesOffBoard ==
    (HasBoard /\ FLAGS.board = <<>>) => FLAGS.exclude \cap Range(tiles) = {}

\* C6: an improve step leaves every home position and every position holding a
\* locked identity as it was; only the positions chosen for the shuffle may differ.
C6_ImproveKeepsHomeAndLockedTiles ==
    [][(pc = "select" /\ pc' = "round") =>
          /\ Len(tiles') = Len(tiles)
          /\ \A k \in 0..(num_tiles - 1) :
                (\/ is_home(At(tiles, k))
                 \/ At(tiles, k) \in FLAGS.lock
                 \/ k \notin Range(shuffle_keegan)) => At(tiles', k) = At(tiles, k)]_vars

\* improve steps have changed a board that holds a locked tile and home systems
C6_Witness ==
    /\ pc = "round" /\ i > 0
    /\ FLAGS.board # <<>> /\ tiles # FLAGS.board
    /\ \E k \in 0..(num_tiles - 1) : At(tiles, k) \in FLAGS.lock
    /\ \E k \in 0..(num_tiles - 1) : At(tiles, k) = FLAGS.board[k + 1] /\ is_home(At(tiles, k))

\* C7: for 4, 6 or 8 players the randomly generated board has exactly 37, 37 or
\* 61 entries, identity 0 exactly at the home positions of that player count,
\* Mecatol Rex at position 0, and every identity of --require on it; and it is
\* generated whenever --require holds non-home, non-Mecatol identities of the data file.
C7_GeneratedBoardShape ==
    /\ (pc = "constructed" /\ FLAGS.board = <<>>) =>
          /\ FLAGS.players \in {4, 6, 8}
          /\ Len(tiles) = (IF FLAGS.players = 8 THEN 61 ELSE 37)
          /\ {k \in 0..(Len(tiles) - 1) : At(tiles, k) = 0} = Range(home_keegan_of(FLAGS.players))
          /\ Cardinality({k \in 0..(Len(tiles) - 1) : At(tiles, k) = 0}) = FLAGS.players
          /\ At(tiles, 0) = MECATOL_INDEX
          /\ FLAGS.require \subseteq Range(tiles)
    /\ (pc = "error" /\ FLAGS.board = <<>> /\ FLAGS.players \in {4, 6, 8}) =>
          ~(FLAGS.require \subseteq Range(NONHOME_TILES) \ {MECATOL_INDEX})

\* a board generated for 8 players with a required tile
C7_Witness ==
    /\ pc = "constructed" /\ FLAGS.board = <<>>
    /\ FLAGS.players = 8 /\ FLAGS.require # {} /\ Len(tiles) = 61

\* C8: random generation fails with "Unsupported player count", and leaves no
\* tile sequence, exactly when the player count is not 4, 6 or 8.
C8_UnsupportedPlayerCount ==
    (pc # "start" /\ FLAGS.board = <<>>) =>
        /\ (err = "Unsupported player count") <=> (FLAGS.players \notin {4, 6, 8})
        /\ (err = "Unsupported player count") => (pc = "error" /\ tiles = <<>>)

\* the run for 5 players has failed
C8_Witness == pc = "error" /\ err = "Unsupported player count" /\ FLAGS.players = 5

\* C9: when get_imbalance() is 0, Home.difference is 0 for every two distinct
\* homes, whichever of the two is the receiver.
C9_ZeroImbalanceMeansNoDifference ==
    (HasBoard /\ get_imbalance(homes) = 0) =>
        \A a \in 1..Len(homes), b \in 1..Len(homes) :
            a # b => home_difference(homes[a], homes[b]) = 0

\* C10 (as stated): __iadd__ is associative and commutative on every attribute,
\* the skips sequence included.
C10_CombineAssociativeAndCommutative ==
    /\ fields(iadd(iadd(acc, rhs), third)) = fields(iadd(acc, iadd(rhs, third)))
    /\ fields(iadd(acc, rhs)) = fields(iadd(rhs, acc))

\* C10 (amended): __iadd__ is associative on every attribute, the skips sequence
\* included; it is commutative on the numeric attributes and on which skip tags
\* occur how often, while the order of the skips sequence depends on the receiver.
C10_CombineAssociativeCommutativeUpToSkipOrder ==
    /\ fields(iadd(iadd(acc, rhs), third)) = fields(iadd(acc, iadd(rhs, third)))
    /\ tallies(iadd(acc, rhs)) = tallies(iadd(rhs, acc))

\* acc += rhs has run on two aggregates with different skip tags and a wormhole
C10_Witness ==
    /\ pc = "combined"
    /\ Len(acc.skips) = 2 /\ acc.skips[1] # acc.skips[2]
    /\ Len(rhs.skips) = 1
    /\ acc.worms > 0 /\ third.planet_systems > 0

\* C11: HomeStats.difference is 0 on identical arguments, symmetric and never
\* negative, for two aggregates of the same hop class (1 or 2).
C11_DifferenceZeroSymmetricNonNegative ==
    /\ \A h \in {1, 2} :
          /\ difference(of_hop(acc, h), of_hop(acc, h)) = 0
          /\ difference(of_hop(acc, h), of_hop(rhs, h)) = difference(of_hop(rhs, h), of_hop(acc, h))
          /\ difference(of_hop(acc, h), of_hop(rhs, h)) >= 0
    /\ pc = "compared" => (ret = difference(rhs, acc) /\ ret >= 0)

\* acc.difference(rhs) was taken on aggregates with different scores and skips
C11_Witness ==
    /\ pc = "compared" /\ ret > 0
    /\ score(acc) < score(rhs) /\ Len(acc.skips) > Len(rhs.skips)
    /\ score(of_hop(acc, 1)) # score(of_hop(rhs, 1))

\* C12: is_valid(position) is true exactly when the four rules hold against the
\* neighbours that are on the board: (a) an anomaly tile has no neighbour with
\* identity > 0 carrying an anomaly tag, (b) a wormhole tile has no neighbour with
\* the same wormhole tag, (c) a legendary tile has no home-slot neighbour, (d) a
\* wormhole tile has no home-slot neighbour.  A wormhole tile next to a home slot
\* is illegal, and legal once that neighbour holds a non-home tile without the
\* same wormhole, when nothing else around it breaks a rule.
C12_IsValidIsTheFourRules ==
    BoardWritten =>
        \A k \in 0..(num_tiles - 1) : At(tiles, k) > 0 =>
            LET tile == TILES[At(tiles, k)]
                around == {a \in 0..(num_tiles - 1) :
                              cube_distance(KEEGAN_TO_COORD[a + 1], KEEGAN_TO_COORD[k + 1]) = 1}
                home_slot(a) == At(tiles, a) = 0
                rule_a == tile.anomaly # None =>
                              ~\E a \in around : At(tiles, a) > 0 /\ TILES[At(tiles, a)].anomaly # None
                rule_b == tile.worm # None =>
                              ~\E a \in around : ~home_slot(a) /\ TILES[At(tiles, a)].worm = tile.worm
                rule_c == tile.skip = "legend" => ~\E a \in around : home_slot(a)
                rule_d == tile.worm # None => ~\E a \in around : home_slot(a)
            IN  /\ is_valid(tiles, num_tiles, k) <=> (rule_a /\ rule_b /\ rule_c /\ rule_d)
                /\ \A a \in around : (tile.worm # None /\ home_slot(a)) =>
                      /\ ~is_valid(tiles, num_tiles, k)
                      /\ \A t \in Range(NONHOME_TILES) :
                            (/\ TILES[t].worm # tile.worm
                             /\ rule_a /\ rule_b
                             /\ \A a2 \in around \ {a} : ~home_slot(a2))
                            => is_valid(place(tiles, <<a>>, <<t>>), num_tiles, k)

C12_Witness ==
    /\ pc = "round" /\ i >= 1
    /\ \E k \in 0..(num_tiles - 1) : \E a \in Range(KEEGAN_ADJACENT[k + 1]) :
          /\ a < num_tiles /\ At(tiles, k) > 0 /\ At(tiles, a) = 0
          /\ TILES[At(tiles, k)].worm # None
          /\ ~is_valid(tiles, num_tiles, k)
          /\ \E t \in Range(NONHOME_TILES) :
                /\ TILES[t].worm # TILES[At(tiles, k)].worm
                /\ is_valid(place(tiles, <<a>>, <<t>>), num_tiles, k)
    /\ \E k \in 0..(num_tiles - 1) :
          /\ At(tiles, k) > 0 /\ TILES[At(tiles, k)].anomaly # None
          /\ ~is_valid(tiles, num_tiles, k)

\* init_hex_coords leaves tables that are inverse to each other: every position
\* has a cube coordinate whose components sum to 0, no two positions share one,
\* ring n holds 6n distinct coordinates at distance n from the centre, and
\* COORD_TO_KEEGAN undoes KEEGAN_TO_COORD in both directions
hex_coords_inverse ==
    LET positions == 0..(Len(KEEGAN_TO_COORD) - 1)
    IN  /\ \A p \in positions :
              LET c == At(KEEGAN_TO_COORD, p)
              IN  /\ c[1] + c[2] + c[3] = 0
                  /\ c \in DOMAIN COORD_TO_KEEGAN
                  /\ COORD_TO_KEEGAN[c] = p
        /\ \A p1, p2 \in positions :
              At(KEEGAN_TO_COORD, p1) = At(KEEGAN_TO_COORD, p2) => p1 = p2
        /\ \A n \in 1..MAX_RINGS :
              /\ Len(cube_ring(n)) = 6 * n
              /\ Cardinality(Range(cube_ring(n))) = 6 * n
              /\ \A c \in Range(cube_ring(n)) : cube_distance(c, <<0,0,0>>) = n
        /\ Cardinality(DOMAIN COORD_TO_KEEGAN) = Len(KEEGAN_TO_COORD)
        /\ \A c \in DOMAIN COORD_TO_KEEGAN :
              /\ COORD_TO_KEEGAN[c] \in positions
              /\ At(KEEGAN_TO_COORD, COORD_TO_KEEGAN[c]) = c

\* C13: the coordinate table built from rings 0..MAX_RINGS is a bijection: every
\* position maps to a cube coordinate whose components sum to 0, no two positions
\* share a coordinate (ring n gives 6n distinct coordinates, all at distance n from
\* the centre), and COORD_TO_KEEGAN and KEEGAN_TO_COORD are inverse to each other
\* in both directions; in particular on every position of the board in play.
C13_CoordinateTableIsBijection ==
    /\ hex_coords_inverse
    /\ BoardWritten =>
          /\ num_tiles <= Len(KEEGAN_TO_COORD)
          /\ \A p \in 0..(num_tiles - 1) :
                /\ COORD_TO_KEEGAN[At(KEEGAN_TO_COORD, p)] = p
                /\ At(KEEGAN_TO_COORD, COORD_TO_KEEGAN[At(KEEGAN_TO_COORD, p)]) = At(KEEGAN_TO_COORD, p)
                /\ \A a \in Range(KEEGAN_ADJACENT[p + 1]) :
                      cube_distance(At(KEEGAN_TO_COORD, a), At(KEEGAN_TO_COORD, p)) = 1

C13_Witness ==
    /\ pc = "round" /\ i >= 1
    /\ num_tiles = Len(KEEGAN_TO_COORD)
    /\ cube_distance(At(KEEGAN_TO_COORD, num_tiles - 1), <<0,0,0>>) = MAX_RINGS
    /\ COORD_TO_KEEGAN[At(KEEGAN_TO_COORD, num_tiles - 1)] = num_tiles - 1
    /\ At(tiles, num_tiles - 1) > 0

\* C14: improve writes back the best arrangement.  After an improve step the
\* imbalance is the minimum of the imbalance before the step and the imbalances of
\* all arrangements of FLAGS.shuffle tiles of the candidate pool (the tiles at the
\* chosen positions followed by the unused tiles) at the chosen positions that pass
\* is_valid at every chosen position; among equal minima the first one enumerated
\* is kept; and if no legal arrangement is strictly lower, the tiles at the chosen
\* positions are exactly the original ones.
C14_ImproveWritesBackBestArrangement ==
    [][(pc = "select" /\ pc' = "round") =>
          LET before == get_imbalance(homes)
              arrangements == permutations(tiles_at(tiles, shuffle_keegan) \o unused, FLAGS.shuffle)
              arranged(p) == place(tiles, shuffle_keegan, arrangements[p])
              legal == {p \in 1..Len(arrangements) :
                           \A q \in 1..Len(shuffle_keegan) :
                               is_valid(arranged(p), num_tiles, shuffle_keegan[q])}
              of_arrangement == Stored([p \in legal |-> get_imbalance(update_stats(homes, arranged(p)))])
              candidates == {before} \cup {of_arrangement[p] : p \in legal}
              lowest == CHOOSE m \in candidates : \A m2 \in candidates : m <= m2
              first == CHOOSE p \in legal :
                           /\ of_arrangement[p] = lowest
                           /\ \A p2 \in legal : of_arrangement[p2] = lowest => p <= p2
          IN  /\ get_imbalance(homes') = lowest
              /\ get_imbalance(update_stats(homes', tiles')) = lowest
              /\ IF lowest < before
                 THEN tiles' = arranged(first)
                 ELSE tiles' = tiles]_vars

\* an improve step on two positions has lowered the imbalance although some unused
\* tile is illegal at a chosen position and another legal arrangement is as good
C14_Witness ==
    /\ pc = "round" /\ i > 0
    /\ FLAGS.shuffle = 2
    /\ get_imbalance(homes) < imbalance
    /\ \E t \in Range(unused) :
          ~is_valid(place(tiles, <<shuffle_keegan[1]>>, <<t>>), num_tiles, shuffle_keegan[1])
    /\ \E other \in Range(permutations(tiles_at(tiles, shuffle_keegan) \o unused, FLAGS.shuffle)) :
          /\ other # tiles_at(tiles, shuffle_keegan)
          /\ \A q \in 1..Len(shuffle_keegan) :
                is_valid(place(tiles, shuffle_keegan, other), num_tiles, shuffle_keegan[q])
          /\ get_imbalance(update_stats(homes, place(tiles, shuffle_keegan, other)))
                = get_imbalance(homes)

\* C15: the statistics are never stale at the end of an optimizer step.  When
\* improve has returned, also when the last arrangement it tried was illegal, and
\* right after construction, the three statistics of every home are those computed
\* afresh from the tiles on the board over hop1, hop2u and hop2c, so get_imbalance()
\* and the value optimize returns are the imbalance of the tiles on the board; with
\* --rounds 0 optimize returns the imbalance computed right after construction.
C15_StatsFreshAfterImprove ==
    /\ pc \in {"constructed", "round", "done"} =>
          /\ \A h \in 1..Len(homes) :
                /\ homes[h].stats1 = update(HomeStats(1), homes[h].hop1, tiles)
                /\ homes[h].stats2u = update(HomeStats(2), homes[h].hop2u, tiles)
                /\ homes[h].stats2c = update(HomeStats(2), homes[h].hop2c, tiles)
          /\ get_imbalance(homes) = get_imbalance(new_board(tiles, NONHOME_TILES, FLAGS.exclude).homes)
    /\ pc = "done" =>
          /\ ret = get_imbalance(new_board(tiles, NONHOME_TILES, FLAGS.exclude).homes)
          /\ FLAGS.rounds = 0 =>
                /\ i = 0
                /\ ret = entry_imbalance
                /\ FLAGS.board # <<>> =>
                      ret = get_imbalance(new_board(FLAGS.board, NONHOME_TILES, FLAGS.exclude).homes)

\* optimize has returned after an improve step that changed the board and whose
\* last arrangement, the last unused tiles in reverse, is illegal
C15_Witness ==
    /\ pc = "done" /\ i > 0
    /\ FLAGS.board # <<>> /\ tiles # FLAGS.board
    /\ ret > 0 /\ ret < entry_imbalance
    /\ Len(unused) >= Len(shuffle_keegan)
    /\ \E q \in 1..Len(shuffle_keegan) :
          ~is_valid(place(tiles, shuffle_keegan,
                          [r \in 1..Len(shuffle_keegan) |-> unused[Len(unused) - r + 1]]),
                    num_tiles, shuffle_keegan[q])

\* C16: improve places no tile twice.  An improve step that starts from a board on
\* which no non-zero identity is placed twice leaves such a board, and whenever a
\* board exists the unused list holds, once each, exactly the non-home identities
\* of the data file that are neither on the board nor in --exclude, so it is
\* disjoint from the tiles placed.
C16_ImprovePreservesDistinctTiles ==
    [][/\ HasBoard' =>
             /\ Range(unused') \cap Range(tiles') = {}
             /\ Range(unused') = Range(NONHOME_TILES) \ (Range(tiles') \cup FLAGS.exclude)
             /\ \A a, b \in 1..Len(unused') : unused'[a] = unused'[b] => a = b
       /\ (/\ pc = "select" /\ pc' = "round"
           /\ \A a, b \in 1..Len(tiles) : (tiles[a] # 0 /\ tiles[a] = tiles[b]) => a = b)
          => /\ \A a, b \in 1..Len(tiles') : (tiles'[a] # 0 /\ tiles'[a] = tiles'[b]) => a = b
             /\ Range(tiles') \subseteq Range(tiles) \cup Range(unused)
             /\ Range(unused') \subseteq Range(tiles) \cup Range(unused)]_vars

\* two improve steps have each brought an unused tile onto a board without repeats,
\* with an identity of --exclude kept out of the unused list
C16_Witness ==
    /\ pc = "round" /\ i >= 2
    /\ FLAGS.board # <<>> /\ FLAGS.exclude # {}
    /\ \A a, b \in 1..Len(tiles) : (tiles[a] # 0 /\ tiles[a] = tiles[b]) => a = b
    /\ Cardinality(Range(tiles) \ Range(FLAGS.board)) >= 2
    /\ Range(FLAGS.board) \cap Range(unused) # {}
    /\ Range(unused) \cap Range(tiles) = {}

====
